---- MODULE Spec2Model ----
(***************************************************************************)
(* Model of portfolio_perfomance.py: the three-class chain                 *)
(* AssetPerfomances -> PerfomancesWithWeights -> TotalPerfomance.          *)
(*                                                                         *)
(* Dates are day numbers.  A float is an exact rational <<n, d>> in lowest *)
(* terms with d > 0; NaN is <<0, 0>>.  A pandas Series is a record         *)
(* [index, vals]; a DataFrame is a record [index, cols] whose cols maps a  *)
(* column name to the sequence of its values.  Python positions are        *)
(* 0-based; the sequences here are 1-based, so Python position i is        *)
(* position i + 1 of the model.                                            *)
(***************************************************************************)
EXTENDS Integers, Sequences, FiniteSets, TLC

\* Days 1..MaxDay are the days on which a table may hold a row.
MaxDay == 4

\* prices.columns, in column order (the order of the "for column in" loops).
Assets == <<"A", "B">>

AssetSet == {Assets[i] : i \in 1..Len(Assets)}

-----------------------------------------------------------------------------
(* Floats as exact rationals.                                              *)

NaN == <<0, 0>>

IsNaN(x) == x[2] = 0

Abs(n) == IF n < 0 THEN -n ELSE n

RECURSIVE Gcd(_, _)
Gcd(a, b) == IF b = 0 THEN a ELSE Gcd(b, a % b)

\* n / d with d > 0, in lowest terms.
Rat(n, d) == LET g == Gcd(Abs(n), d) IN <<n \div g, d \div g>>

RAdd(x, y) == IF IsNaN(x) \/ IsNaN(y) THEN NaN
              ELSE Rat(x[1] * y[2] + y[1] * x[2], x[2] * y[2])

RSub(x, y) == IF IsNaN(x) \/ IsNaN(y) THEN NaN
              ELSE Rat(x[1] * y[2] - y[1] * x[2], x[2] * y[2])

RMul(x, y) == IF IsNaN(x) \/ IsNaN(y) THEN NaN
              ELSE Rat(x[1] * y[1], x[2] * y[2])

\* x / y.  Every divisor of the program is a price, a rate or their product,
\* and the tables hold positive prices and rates, so y is never 0.
RDiv(x, y) == IF IsNaN(x) \/ IsNaN(y) THEN NaN
              ELSE IF y[1] < 0 THEN Rat(-(x[1] * y[2]), x[2] * (-y[1]))
              ELSE Rat(x[1] * y[2], x[2] * y[1])

Zero == <<0, 1>>

One == <<1, 1>>

-----------------------------------------------------------------------------
(* Sequences.                                                              *)

Range(s) == {s[i] : i \in 1..Len(s)}

SetMin(S) == CHOOSE x \in S : \A y \in S : x <= y

RECURSIVE SortedSeq(_)
SortedSeq(S) == IF S = {} THEN <<>>
                ELSE <<SetMin(S)>> \o SortedSeq(S \ {SetMin(S)})

\* [v] * n
Repeat(v, n) == [i \in 1..n |-> v]

EmptyDF == [index |-> <<>>, cols |-> <<>>]

EmptySeries == [index |-> <<>>, vals |-> <<>>]

-----------------------------------------------------------------------------
(* AssetPerfomances: the helpers.                                          *)

\* fillna(method='ffill'): a NaN takes the value before it, if any.
RECURSIVE FFillTo(_, _)
FFillTo(column, n) ==
    IF n = 0 THEN <<>>
    ELSE LET head == FFillTo(column, n - 1)
         IN  Append(head, IF IsNaN(column[n]) /\ n > 1 THEN head[n - 1]
                          ELSE column[n])

FFill(column) == FFillTo(column, Len(column))

\* fillna(method='bfill'): a NaN takes the value after it, if any.
RECURSIVE BFillFrom(_, _)
BFillFrom(column, n) ==
    IF n > Len(column) THEN <<>>
    ELSE LET tail == BFillFrom(column, n + 1)
         IN  <<IF IsNaN(column[n]) /\ n < Len(column) THEN tail[1]
               ELSE column[n]>> \o tail

BFill(column) == BFillFrom(column, 1)

\* Mutant of ReplaceNaValues: the bfill pass is left out.
ForwardOnly(column) == FFill(column)

\* __replace_na_values: ffill, then bfill.
ReplaceNaValues(column) == BFill(FFill(column))

\* pd.date_range(first, last, freq='D')
DateRange(first, last) == [i \in 1..(last - first + 1) |-> first + i - 1]

\* The left join of a daily index with df: the row of df on that day, or NaN.
JoinColumn(index, df, c) ==
    [i \in 1..Len(index) |->
        IF \E j \in 1..Len(df.index) : df.index[j] = index[i]
        THEN df.cols[c][CHOOSE j \in 1..Len(df.index) : df.index[j] = index[i]]
        ELSE NaN]

\* __get_new_index: df on the daily calendar from its first to its last date.
GetNewIndex(df) ==
    LET index == DateRange(df.index[1], df.index[Len(df.index)])
    IN  [index |-> index,
         cols  |-> [c \in DOMAIN df.cols |-> JoinColumn(index, df, c)]]

\* The loop "for i in range(1, len(v)): (v[i] - v[i-1]) / v[i-1]".
Returns(v) == [i \in 1..(Len(v) - 1) |-> RDiv(RSub(v[i + 1], v[i]), v[i])]

\* index[1:]
Tail1(index) == [i \in 1..(Len(index) - 1) |-> index[i + 1]]

\* iloc[:-1] of a sequence
DropLast(s) == [i \in 1..(Len(s) - 1) |-> s[i]]

-----------------------------------------------------------------------------
(* AssetPerfomances: the per-asset series and the three tables of them.    *)

\* __count_return_prices_for_asset
CountReturnPricesForAsset(pr, asset) ==
    Returns(ReplaceNaValues(GetNewIndex(pr).cols[asset]))

\* _calculate_price_perfomance_for_all_assets.  Every column and the new
\* index have N - 1 entries, so the index assignment cannot fail.
CalculatePricePerfomanceForAllAssets(pr) ==
    [index |-> Tail1(GetNewIndex(pr).index),
     cols  |-> [a \in AssetSet |-> CountReturnPricesForAsset(pr, a)]]

\* __count_currency_perfomance_for_asset.  The rates are the raw rows of
\* _exchanges (no __get_new_index here).  fillna(inplace=True) acts on the
\* column object that _exchanges handed out: with wr the table itself is
\* filled, without it only the copy is.
FilledRates(ex, cur_currency, wr, new_exchanges) ==
    [err  |-> "none",
     ex   |-> IF wr THEN [ex EXCEPT !.cols[cur_currency] = new_exchanges] ELSE ex,
     vals |-> Returns(new_exchanges)]

CountCurrencyPerfomanceForAsset(ex, cur, asset, wr) ==
    IF cur[asset] = "USD"
    THEN [err |-> "none", ex |-> ex, vals |-> Repeat(Zero, Len(ex.index) - 1)]
    ELSE IF cur[asset] \notin DOMAIN ex.cols
    THEN [err |-> "KeyError", ex |-> ex, vals |-> <<>>]
    ELSE FilledRates(ex, cur[asset], wr, ReplaceNaValues(ex.cols[cur[asset]]))

\* The loop of _calculate_currency_perfomance_for_all_assets from column k on.
RECURSIVE CurrencyColumns(_, _, _, _, _)
CurrencyColumn(k, r, cur, wr, cols) ==
    IF r.err # "none" THEN [err |-> r.err, ex |-> r.ex, cols |-> cols]
    ELSE CurrencyColumns(k + 1, r.ex, cur, wr, cols @@ (Assets[k] :> r.vals))

CurrencyColumns(k, ex, cur, wr, cols) ==
    IF k > Len(Assets) THEN [err |-> "none", ex |-> ex, cols |-> cols]
    ELSE CurrencyColumn(k, CountCurrencyPerfomanceForAsset(ex, cur, Assets[k], wr),
                        cur, wr, cols)

\* Assigning an index to a DataFrame: the lengths must agree.
IndexFits(rows, index) == rows = Len(index)

\* _calculate_currency_perfomance_for_all_assets: the columns have one entry
\* per raw row of _exchanges but the first; the index has one per calendar day
\* but the first.
CurrencyFrame(loop, index) ==
    IF loop.err # "none" THEN [err |-> loop.err, ex |-> loop.ex, df |-> EmptyDF]
    ELSE IF ~IndexFits(Len(loop.ex.index) - 1, index)
    THEN [err |-> "ValueError", ex |-> loop.ex, df |-> EmptyDF]
    ELSE [err |-> "none", ex |-> loop.ex, df |-> [index |-> index, cols |-> loop.cols]]

CalculateCurrencyPerfomanceForAllAssets(ex, cur, wr) ==
    CurrencyFrame(CurrencyColumns(1, ex, cur, wr, <<>>), Tail1(GetNewIndex(ex).index))

\* __get_series_by_currency: the raw column of the asset's currency, or ones
\* when _exchanges has no such column (the KeyError handler).
GetSeriesByCurrency(ex, cur, asset) ==
    IF cur[asset] \in DOMAIN ex.cols THEN ex.cols[cur[asset]]
    ELSE Repeat(One, Len(ex.index))

\* __count_total_perfomance_for_asset: .values of both, paired by position.
ValueReturn(value1, value2) == RDiv(RSub(value1, value2), value2)

TotalLoop(new_prices, currency_for_asset) ==
    IF Len(new_prices) > 1 /\ Len(currency_for_asset) < Len(new_prices)
    THEN [err |-> "IndexError", vals |-> <<>>]
    ELSE [err  |-> "none",
          vals |-> [i \in 1..(Len(new_prices) - 1) |->
                      ValueReturn(RMul(currency_for_asset[i + 1], new_prices[i + 1]),
                                  RMul(currency_for_asset[i], new_prices[i]))]]

CountTotalPerfomanceForAsset(pr, ex, cur, asset) ==
    TotalLoop(ReplaceNaValues(GetNewIndex(pr).cols[asset]),
              GetSeriesByCurrency(ex, cur, asset))

\* _calculate_total_perfomance_for_all_assets
TotalFrame(index, columns) ==
    IF \E a \in AssetSet : columns[a].err # "none"
    THEN [err |-> "IndexError", df |-> EmptyDF]
    ELSE [err |-> "none",
          df  |-> [index |-> index, cols |-> [a \in AssetSet |-> columns[a].vals]]]

CalculateTotalPerfomanceForAllAssets(pr, ex, cur) ==
    TotalFrame(Tail1(GetNewIndex(pr).index),
               [a \in AssetSet |-> CountTotalPerfomanceForAsset(pr, ex, cur, a)])

\* _prepare_weights_df: daily calendar, ffill, bfill, iloc[:-1].
FilledWeights(new_weights) ==
    [index |-> DropLast(new_weights.index),
     cols  |-> [c \in DOMAIN new_weights.cols |->
                  DropLast(BFill(FFill(new_weights.cols[c])))]]

PrepareWeightsDf(wt) == FilledWeights(GetNewIndex(wt))

-----------------------------------------------------------------------------
(* PerfomancesWithWeights.                                                 *)

Pos(index, day) == CHOOSE i \in 1..Len(index) : index[i] = day

\* left * right of two DataFrames: both are aligned on the union of their
\* row labels and of their columns, and a cell either lacks is NaN.
InBoth(left, right, c, day) ==
    /\ c \in DOMAIN left.cols /\ c \in DOMAIN right.cols
    /\ day \in Range(left.index) /\ day \in Range(right.index)

Aligned(left, right, index) ==
    [index |-> index,
     cols  |-> [c \in DOMAIN left.cols \cup DOMAIN right.cols |->
                  [i \in 1..Len(index) |->
                      IF InBoth(left, right, c, index[i])
                      THEN RMul(left.cols[c][Pos(left.index, index[i])],
                                right.cols[c][Pos(right.index, index[i])])
                      ELSE NaN]]]

MulFrames(left, right) ==
    Aligned(left, right, SortedSeq(Range(left.index) \cup Range(right.index)))

\* sum(df.iloc[i].values)
RECURSIVE SumRow(_, _, _)
SumRowWith(cols, names, i, c) == RAdd(SumRow(cols, names \ {c}, i), cols[c][i])

SumRow(cols, names, i) ==
    IF names = {} THEN Zero
    ELSE SumRowWith(cols, names, i, CHOOSE x \in names : TRUE)

\* _calculate_*_perfomance_according_on_weights
RowSums(with_weights) ==
    [index |-> with_weights.index,
     vals  |-> [i \in 1..Len(with_weights.index) |->
                  SumRow(with_weights.cols, DOMAIN with_weights.cols, i)]]

AccordingOnWeights(perfomance, w) == RowSums(MulFrames(perfomance, w))

-----------------------------------------------------------------------------
(* TotalPerfomance.__init__ with the two __init__ it calls.                *)

Built(e, ex, r, c, t, w) ==
    [err |-> e, exchanges |-> ex, rt |-> r, crt |-> c, trt |-> t, weights |-> w,
     res_t          |-> IF e = "none" THEN AccordingOnWeights(r, w) ELSE EmptySeries,
     currency_res_t |-> IF e = "none" THEN AccordingOnWeights(c, w) ELSE EmptySeries,
     total_res_t    |-> IF e = "none" THEN AccordingOnWeights(t, w) ELSE EmptySeries]

BuildTotal(wt, r, c, t) ==
    IF t.err # "none" THEN Built(t.err, c.ex, r, c.df, EmptyDF, EmptyDF)
    ELSE Built("none", c.ex, r, c.df, t.df, PrepareWeightsDf(wt))

BuildCurrency(pr, cur, wt, r, c) ==
    IF c.err # "none" THEN Built(c.err, c.ex, r, EmptyDF, EmptyDF, EmptyDF)
    ELSE BuildTotal(wt, r, c, CalculateTotalPerfomanceForAllAssets(pr, c.ex, cur))

\* The chain of __init__: __rt, __crt, __trt, __weights, then the three sums.
Build(pr, ex, cur, wt, wr) ==
    BuildCurrency(pr, cur, wt, CalculatePricePerfomanceForAllAssets(pr),
                  CalculateCurrencyPerfomanceForAllAssets(ex, cur, wr))

-----------------------------------------------------------------------------
(* The object.                                                             *)

VARIABLES
    prices,          \* _prices
    exchanges,       \* _exchanges
    currencies,      \* _currencies: asset -> currency code
    weights,         \* _weights
    inplace,         \* whether fillna(inplace=True) on a column reaches its table
    pc,              \* "loaded", then "ready" or "failed"
    err,             \* the exception that ended __init__, or "none"
    rt, crt, trt,    \* PerfomancesWithWeights.__rt, __crt, __trt
    wts,             \* PerfomancesWithWeights.__weights
    res_t, currency_res_t, total_res_t,
    P, CP, TP,
    query,           \* the last call: [metric, start_date, end_date]
    outcome,         \* how it ended: "none" before any call, "ok", "KeyError", "ValueError"
    perf             \* the Series it returned

tables == <<prices, exchanges, currencies, weights, inplace>>

derived == <<rt, crt, trt, wts, res_t, currency_res_t, total_res_t>>

bases == <<P, CP, TP>>

calls == <<query, outcome, perf>>

vars == <<tables, pc, err, derived, bases, calls>>

-----------------------------------------------------------------------------
(* The tables an object is built from.                                     *)

\* The date columns: at least two rows, strictly increasing days.
DateSeqs == {SortedSeq(S) : S \in {T \in SUBSET (1..MaxDay) : Cardinality(T) >= 2}}

\* Columns of n rows: 1, 2, 3, ...; 2, 1, 2, ...; 1/2, 1, 3/2, ...
Rising(n) == [i \in 1..n |-> <<i, 1>>]

Alternating(n) == [i \in 1..n |-> <<1 + (i % 2), 1>>]

Halves(n) == [i \in 1..n |-> Rat(i, 2)]

\* column with the rows of mask missing
Masked(column, mask) == [i \in 1..Len(column) |-> IF i \in mask THEN NaN ELSE column[i]]

Table(index, names, colA, others) ==
    [index |-> index, cols |-> [c \in names |-> IF c \in {"A", "EUR"} THEN colA ELSE others]]

\* A daily rate table over all the days, and weights on the price dates.
DailyExchanges == Table(DateRange(1, MaxDay), {"EUR"}, Alternating(MaxDay), <<>>)

WeightsOn(index) ==
    Table(index, AssetSet, Halves(Len(index)), Repeat(<<1, 2>>, Len(index)))

\* Any dates and any missing prices of asset A, with daily rates and with
\* weights on the price dates.
InitPrices ==
    \E index \in DateSeqs :
      \E mask \in SUBSET (1..Len(index)) :
        /\ prices = Table(index, AssetSet, Masked(Rising(Len(index)), mask),
                          Alternating(Len(index)))
        /\ exchanges = DailyExchanges
        /\ currencies = [a \in AssetSet |-> IF a = "A" THEN "EUR" ELSE "USD"]
        /\ weights = WeightsOn(index)
        /\ inplace = TRUE

\* Any dates and any missing rates, and any currency of asset A (GBP has no
\* rate column), under prices of two or of three days.
InitExchanges ==
    \E index \in DateSeqs :
      \E mask \in SUBSET (1..Len(index)) :
        \E curA \in {"USD", "EUR", "GBP"} :
          \E pindex \in {<<1, 2>>, <<1, 2, 3>>} :
            /\ curA # "EUR" => mask = {}
            /\ prices = Table(pindex, AssetSet, Rising(Len(pindex)),
                              Alternating(Len(pindex)))
            /\ exchanges = Table(index, {"EUR"},
                                 Masked(Alternating(Len(index)), mask), <<>>)
            /\ currencies = [a \in AssetSet |-> IF a = "A" THEN curA ELSE "USD"]
            /\ weights = WeightsOn(pindex)
            /\ inplace \in BOOLEAN

\* Any dates and any missing weights of asset A, under prices of days 2 and 3
\* or of days 1 to 3: the weights may start earlier or later, and end earlier
\* or later, than the prices.
InitWeights ==
    \E index \in DateSeqs :
      \E mask \in SUBSET (1..Len(index)) :
        \E pindex \in {<<2, 3>>, <<1, 2, 3>>} :
          /\ prices = Table(pindex, AssetSet, Rising(Len(pindex)),
                            Alternating(Len(pindex)))
          /\ exchanges = DailyExchanges
          /\ currencies = [a \in AssetSet |-> IF a = "A" THEN "EUR" ELSE "USD"]
          /\ weights = Table(index, AssetSet, Masked(Halves(Len(index)), mask),
                             Repeat(<<1, 2>>, Len(index)))
          /\ inplace = TRUE

NoQuery == [metric |-> "none", start_date |-> 0, end_date |-> 0]

Init ==
    /\ InitPrices \/ InitExchanges \/ InitWeights
    /\ pc = "loaded"
    /\ err = "none"
    /\ rt = EmptyDF /\ crt = EmptyDF /\ trt = EmptyDF /\ wts = EmptyDF
    /\ res_t = EmptySeries /\ currency_res_t = EmptySeries /\ total_res_t = EmptySeries
    /\ P = Zero /\ CP = Zero /\ TP = Zero    \* not assigned yet
    /\ query = NoQuery /\ outcome = "none" /\ perf = EmptySeries

-----------------------------------------------------------------------------
(* TotalPerfomance.__init__: everything is computed here, once.            *)

Assign(b) ==
    /\ exchanges' = b.exchanges
    /\ rt' = b.rt /\ crt' = b.crt /\ trt' = b.trt /\ wts' = b.weights
    /\ res_t' = b.res_t
    /\ currency_res_t' = b.currency_res_t
    /\ total_res_t' = b.total_res_t
    /\ err' = b.err
    /\ pc' = IF b.err = "none" THEN "ready" ELSE "failed"
    /\ IF b.err = "none" THEN P' = One /\ CP' = One /\ TP' = One
       ELSE UNCHANGED bases

Construct ==
    /\ pc = "loaded"
    /\ Assign(Build(prices, exchanges, currencies, weights, inplace))
    /\ UNCHANGED <<prices, currencies, weights, inplace, calls>>

-----------------------------------------------------------------------------
(* The three queries.                                                      *)

\* The dates a caller asks for: whether a date is in a series' index depends
\* on the tables.
QueryDates == 1..MaxDay

HasLoc(index, date) == \E i \in 1..Len(index) : index[i] = date

\* index.get_loc(date), when the date is in the index
GetLoc(index, date) == CHOOSE i \in 1..Len(index) : index[i] = date

\* series.loc[start_date:end_date].index
LocSlice(index, start_date, end_date) ==
    SelectSeq(index, LAMBDA d : start_date <= d /\ d <= end_date)

\* Mutant of Compounded: the return one position early, iloc[i - 1].
CompoundedFromPrevious(last, vals, i) == RMul(last, RAdd(One, vals[i - 1]))

\* One round of the loop: performance[-1] * (1 + series.iloc[i])
Compounded(last, vals, i) == RMul(last, RAdd(One, vals[i]))

\* The list after the loop "for i in range(start + 1, end + 1)" has passed i.
Appended(list, vals, i) == Append(list, Compounded(list[Len(list)], vals, i))

RECURSIVE PerformanceList(_, _, _, _)
PerformanceList(base, vals, start, i) ==
    IF i <= start THEN <<base>>
    ELSE Appended(PerformanceList(base, vals, start, i - 1), vals, i)

\* Mutant of SeriesFits: the values are returned whatever the index is.
AnyLength(values, index) == TRUE

\* pd.Series(values, index=index) raises ValueError unless the lengths agree.
SeriesFits(values, index) == Len(values) = Len(index)

\* The body the three calculate_*_performance methods share.
NewSeries(list, index) ==
    IF SeriesFits(list, index)
    THEN [outcome |-> "ok", perf |-> [index |-> index, vals |-> list]]
    ELSE [outcome |-> "ValueError", perf |-> EmptySeries]

Calculate(series, base, start_date, end_date) ==
    IF ~HasLoc(series.index, start_date) \/ ~HasLoc(series.index, end_date)
    THEN [outcome |-> "KeyError", perf |-> EmptySeries]
    ELSE NewSeries(PerformanceList(base, series.vals, GetLoc(series.index, start_date),
                                   GetLoc(series.index, end_date)),
                   LocSlice(series.index, start_date, end_date))

\* Mutant of BaseAfter: the method stores where its series ended.
BaseAccumulated(base, own, result) ==
    IF own /\ result.outcome = "ok" THEN result.perf.vals[Len(result.perf.vals)]
    ELSE base

\* What a query leaves in a base value: the methods never assign one.
BaseAfter(base, own, result) == base

Returned(metric, start_date, end_date, result) ==
    /\ query' = [metric |-> metric, start_date |-> start_date, end_date |-> end_date]
    /\ outcome' = result.outcome
    /\ perf' = result.perf
    /\ P' = BaseAfter(P, metric = "asset", result)
    /\ CP' = BaseAfter(CP, metric = "currency", result)
    /\ TP' = BaseAfter(TP, metric = "total", result)

\* calculate_asset_performance: the list starts from the literal 1.
CalculateAssetPerformance ==
    /\ pc = "ready"
    /\ \E start_date \in QueryDates, end_date \in QueryDates :
         Returned("asset", start_date, end_date,
                  Calculate(res_t, One, start_date, end_date))
    /\ UNCHANGED <<tables, pc, err, derived>>

\* calculate_currency_performance: the list starts from __CP.
CalculateCurrencyPerformance ==
    /\ pc = "ready"
    /\ \E start_date \in QueryDates, end_date \in QueryDates :
         Returned("currency", start_date, end_date,
                  Calculate(currency_res_t, CP, start_date, end_date))
    /\ UNCHANGED <<tables, pc, err, derived>>

\* calculate_total_performance: the list starts from __TP.
CalculateTotalPerformance ==
    /\ pc = "ready"
    /\ \E start_date \in QueryDates, end_date \in QueryDates :
         Returned("total", start_date, end_date,
                  Calculate(total_res_t, TP, start_date, end_date))
    /\ UNCHANGED <<tables, pc, err, derived>>

Next ==
    \/ Construct
    \/ CalculateAssetPerformance
    \/ CalculateCurrencyPerformance
    \/ CalculateTotalPerformance

Spec == Init /\ [][Next]_vars

-----------------------------------------------------------------------------
(* What the claims speak of.                                               *)

MetricSeries(metric) ==
    IF metric = "asset" THEN res_t
    ELSE IF metric = "currency" THEN currency_res_t
    ELSE total_res_t

\* The calendar of the metric the last call asked for.
Calendar == MetricSeries(query.metric).index

\* The position of a date of a calendar: how many of its dates are not later.
PositionOf(index, date) == Cardinality({i \in 1..Len(index) : index[i] <= date})

StartPos == PositionOf(Calendar, query.start_date)

EndPos == PositionOf(Calendar, query.end_date)

DatesKnown == query.start_date \in Range(Calendar) /\ query.end_date \in Range(Calendar)

ValidRange == outcome # "none" /\ DatesKnown /\ StartPos <= EndPos

\* (1 + vals[from]) * ... * (1 + vals[to])
RECURSIVE Product(_, _, _)
Product(vals, from, to) ==
    IF from > to THEN One
    ELSE RMul(Product(vals, from, to - 1), RAdd(One, vals[to]))

\* (new - old) / old
Ret(new, old) == RDiv(RSub(new, old), old)

\* The rows of column c that hold a value.
Observed(df, c) == {j \in 1..Len(df.index) : ~IsNaN(df.cols[c][j])}

SetMax(S) == CHOOSE x \in S : \A y \in S : y <= x

\* The value of column c on a calendar day: the last value observed on or
\* before that day; before the first one, the first value observed after it.
GapFilledFrom(df, c, before, after) ==
    IF before # {} THEN df.cols[c][SetMax(before)]
    ELSE IF after # {} THEN df.cols[c][SetMin(after)]
    ELSE NaN

GapFilled(df, c, day) ==
    GapFilledFrom(df, c, {j \in Observed(df, c) : df.index[j] <= day},
                  {j \in Observed(df, c) : df.index[j] > day})

FirstDay(df) == df.index[1]

\* N: the days of the daily calendar from the first to the last row of df.
Days(df) == df.index[Len(df.index)] - df.index[1] + 1

\* Days 2..N of that calendar.
ReturnDays(df) == [k \in 1..(Days(df) - 1) |-> FirstDay(df) + k]

-----------------------------------------------------------------------------
(* C1: a query over a valid range (both dates in the metric's calendar,    *)
(* start position s <= end position e) returns a series whose first entry  *)
(* is 1 and whose entry for position i in s+1..e is the entry before it    *)
(* times (1 + return[i]), that is the product of (1 + return[k]) for       *)
(* k = s+1..i; the return at s is not used.                                *)
C1_Compounding ==
    ValidRange =>
        /\ outcome = "ok"
        /\ Len(perf.vals) = EndPos - StartPos + 1
        /\ perf.vals[1] = One
        /\ \A k \in 2..Len(perf.vals) :
             /\ perf.vals[k] = RMul(perf.vals[k - 1],
                                    RAdd(One, MetricSeries(query.metric).vals[StartPos + k - 1]))
             /\ perf.vals[k] = Product(MetricSeries(query.metric).vals,
                                       StartPos + 1, StartPos + k - 1)

\* C1's case: a window of three days or more whose index really grows, and
\* whose own first return is a number other than 0.
C1_Witness ==
    /\ outcome = "ok"
    /\ Len(perf.vals) >= 3
    /\ \A k \in 1..Len(perf.vals) : ~IsNaN(perf.vals[k])
    /\ perf.vals[2] # One
    /\ perf.vals[3] # perf.vals[2]

(* C2: the series a query returns over a valid range is indexed by exactly *)
(* the calendar days from start_date to end_date, one entry per day, in    *)
(* increasing order.                                                       *)
C2_WindowIndex ==
    ValidRange =>
        /\ outcome = "ok"
        /\ perf.index = DateRange(query.start_date, query.end_date)
        /\ Len(perf.vals) = EndPos - StartPos + 1

(* C3: a query ends with KeyError when start_date or end_date is not in    *)
(* the metric's calendar (whatever their order), with ValueError when both *)
(* are and start lies after end, and returns a series in every other case; *)
(* a failed query returns nothing.                                         *)
C3_Outcome ==
    outcome # "none" =>
        /\ ~DatesKnown => outcome = "KeyError"
        /\ (DatesKnown /\ StartPos > EndPos) => outcome = "ValueError"
        /\ (DatesKnown /\ StartPos <= EndPos) => outcome = "ok"
        /\ outcome # "ok" => perf = EmptySeries

\* C3's case: both dates in the calendar, in the wrong order.
C3_Witness ==
    /\ outcome = "ValueError"
    /\ DatesKnown
    /\ query.start_date > query.end_date

(* C4: a query, whether it returns or raises, leaves the stored portfolio  *)
(* return series and the base values P, CP, TP = 1 as construction left    *)
(* them, so whatever was asked before, a call returns what the same call   *)
(* returns first on an object freshly built from the same tables.          *)
C4_AsFresh(fresh) ==
    pc = "ready" =>
        /\ P = One /\ CP = One /\ TP = One
        /\ res_t = fresh.res_t
        /\ currency_res_t = fresh.currency_res_t
        /\ total_res_t = fresh.total_res_t
        /\ outcome # "none" =>
             [outcome |-> outcome, perf |-> perf] =
                 Calculate(IF query.metric = "asset" THEN fresh.res_t
                           ELSE IF query.metric = "currency" THEN fresh.currency_res_t
                           ELSE fresh.total_res_t,
                           One, query.start_date, query.end_date)

C4_QueriesKeepState ==
    /\ [] C4_AsFresh(Build(prices, exchanges, currencies, weights, inplace))
    /\ [][pc = "ready" => UNCHANGED <<tables, derived, bases>>]_vars

\* C4's case: a currency or total query has returned a series that ends
\* away from 1, the value a stored base would have taken.
C4_Witness ==
    /\ outcome = "ok"
    /\ query.metric # "asset"
    /\ Len(perf.vals) >= 2
    /\ ~IsNaN(perf.vals[Len(perf.vals)])
    /\ perf.vals[Len(perf.vals)] # One

(* C5: the price return series of every asset has N - 1 entries, on days   *)
(* 2..N of the daily calendar from the first to the last price date, and   *)
(* the entry of day t is (p[t] - p[t-1]) / p[t-1] for the gap-filled price *)
(* p: the last price known on or before the day, and before the first      *)
(* known price the first one known after.                                  *)
C5_PriceReturns ==
    pc # "loaded" =>
        /\ rt.index = ReturnDays(prices)
        /\ \A a \in AssetSet :
             /\ Len(rt.cols[a]) = Days(prices) - 1
             /\ \A k \in 1..(Days(prices) - 1) :
                  rt.cols[a][k] = Ret(GapFilled(prices, a, FirstDay(prices) + k),
                                      GapFilled(prices, a, FirstDay(prices) + k - 1))

\* C5's case: a price table that skips a day, with the first price of A
\* missing and a later one known, and a return of A other than 0.
C5_Witness ==
    /\ pc # "loaded"
    /\ Days(prices) > Len(prices.index)
    /\ IsNaN(prices.cols["A"][1])
    /\ \E k \in 1..Len(rt.cols["A"]) :
         ~IsNaN(rt.cols["A"][k]) /\ rt.cols["A"][k] # Zero

KnownCurrency(a) == currencies[a] = "USD" \/ currencies[a] \in DOMAIN exchanges.cols

(* C6: the currency return series of every asset has one entry for each of *)
(* the days 2..M of the daily calendar from the first to the last rate     *)
(* date, also when the rate table skips days: 0 for an asset in USD, else  *)
(* (r[t] - r[t-1]) / r[t-1] for the gap-filled daily rate r.               *)
C6_CurrencyReturns ==
    (pc # "loaded" /\ \A a \in AssetSet : KnownCurrency(a)) =>
        /\ crt.index = ReturnDays(exchanges)
        /\ DOMAIN crt.cols = AssetSet
        /\ \A a \in AssetSet :
             /\ Len(crt.cols[a]) = Days(exchanges) - 1
             /\ \A k \in 1..(Days(exchanges) - 1) :
                  crt.cols[a][k] =
                      IF currencies[a] = "USD" THEN Zero
                      ELSE Ret(GapFilled(exchanges, currencies[a], FirstDay(exchanges) + k),
                               GapFilled(exchanges, currencies[a], FirstDay(exchanges) + k - 1))

(* C7: an asset whose currency is not USD and has no rate column does not  *)
(* make the computation fail: its currency return is 0 on every day and    *)
(* its total return is its price return.                                   *)
C7_UnknownCurrency ==
    (pc # "loaded" /\ \E a \in AssetSet : ~KnownCurrency(a)) =>
        /\ err # "KeyError"
        /\ pc = "ready" =>
             \A a \in AssetSet :
                ~KnownCurrency(a) =>
                    /\ \A k \in 1..Len(crt.cols[a]) : crt.cols[a][k] = Zero
                    /\ trt.cols[a] = rt.cols[a]

\* The rate that applies to an asset on a calendar day.
RateOn(a, day) ==
    IF currencies[a] \in DOMAIN exchanges.cols THEN GapFilled(exchanges, currencies[a], day)
    ELSE One

\* v[d]: the gap-filled price of the day times the rate of that same day.
ValueOn(a, day) == RMul(GapFilled(prices, a, day), RateOn(a, day))

(* C8: the total return of every asset on day t of days 2..N of the price  *)
(* calendar is (v[t] - v[t-1]) / v[t-1], v[d] being the gap-filled price   *)
(* of calendar day d times the rate that applies on that same day d, also  *)
(* when the rate table starts on another day than the price table or has   *)
(* another number of rows.                                                 *)
C8_TotalReturns ==
    (pc # "loaded" /\ err \notin {"KeyError", "ValueError"}) =>
        /\ err = "none"
        /\ trt.index = ReturnDays(prices)
        /\ \A a \in AssetSet :
             \A k \in 1..(Days(prices) - 1) :
                trt.cols[a][k] = Ret(ValueOn(a, FirstDay(prices) + k),
                                     ValueOn(a, FirstDay(prices) + k - 1))

\* The k-th returns times the k-th row of the prepared weights, summed.
RECURSIVE PositionalSum(_, _, _)
PositionalSum(df, k, n) ==
    IF n = 0 THEN Zero
    ELSE RAdd(PositionalSum(df, k, n - 1),
              RMul(df.cols[Assets[n]][k], wts.cols[Assets[n]][k]))

SameTables == weights.index = prices.index /\ DOMAIN weights.cols = DOMAIN prices.cols

(* C9: with prices and weights on the same dates and assets, the portfolio *)
(* return series of a metric has the index of the per-asset return series  *)
(* (N - 1 entries, days 2..N), and its k-th entry is the sum over the      *)
(* assets of the k-th return times the k-th row of the daily weights       *)
(* without their final day.                                                *)
C9_Aggregation ==
    (pc = "ready" /\ SameTables) =>
        /\ res_t.index = rt.index
        /\ total_res_t.index = trt.index
        /\ currency_res_t.index = crt.index
        /\ \A k \in 1..Len(rt.index) :
             /\ res_t.vals[k] = PositionalSum(rt, k, Len(Assets))
             /\ total_res_t.vals[k] = PositionalSum(trt, k, Len(Assets))

(* C10: when the dates of the weights are not those of the returns, the    *)
(* aggregation does not fail and the portfolio return series has entries   *)
(* for the days both cover, and none for a day either lacks.               *)
C10_Truncation ==
    (pc # "loaded" /\ err = "none" /\ weights.index # prices.index) =>
        /\ pc = "ready"
        /\ Range(res_t.index) = Range(rt.index) \cap Range(wts.index)
        /\ Range(total_res_t.index) = Range(trt.index) \cap Range(wts.index)
        /\ Range(currency_res_t.index) = Range(crt.index) \cap Range(wts.index)

====
